---- MODULE Spec2Model ----
(***************************************************************************)
(* Model of lobo_wireless.Wireless (src/src/lobo_wireless/lobo_wireless.py) *)
(* over a MicroPython network.WLAN station interface.                      *)
(*                                                                         *)
(* The manager is single threaded.  __init__, the property setters,        *)
(* available_wlans and disconnect are one step each.  connect is a         *)
(* sequence of steps (one per loop body section) so that the driver, which *)
(* associates asynchronously, can change its link state between two polls. *)
(* Python values handed to the constructor and setters carry their type,   *)
(* as the assertions test it.                                              *)
(*                                                                         *)
(* The driver is the platform's: it is assumed to drop the link when it is *)
(* powered down or asked to disconnect, to associate or lose the link on   *)
(* its own while powered up, and to report any status code at any time.    *)
(* Assertions are taken to be enabled.                                     *)
(***************************************************************************)
EXTENDS Integers, Sequences, FiniteSets, TLC

VARIABLES
    pc,          \* "new" (no manager yet), "idle" (between calls) or a position inside connect()
    ssid,        \* self._ssid
    password,    \* self._password
    attempts,    \* self._attempts
    wait_loops,  \* self._wait_loops
    wlan,        \* self._wlan: the driver's state [active, connected, addr, stat]
    ai,          \* connect(): index into range(self._attempts, 0, -1)
    li,          \* connect(): index into the tuple (self._wait_loops, 0, -1)
    output,      \* connect(): _output
    op,          \* the call in progress or last made
    arg,         \* the arguments of that call
    ret,         \* how that call ended: "running", "returned", "AssertionError"
    trace,       \* driver calls and sleeps made by that call, in order
    again,       \* TRUE if that call repeats the call before it with nothing in between
    fresh,       \* TRUE while the driver has not moved since that call ended
    statChanges  \* status changes of the driver during the connect() in progress

vars == <<pc, ssid, password, attempts, wait_loops, wlan, ai, li, output,
          op, arg, ret, trace, again, fresh, statChanges>>

config == <<ssid, password, attempts, wait_loops>>

(***************************************************************************)
(* Bounds of the model                                                     *)
(***************************************************************************)
\* spontaneous status-code changes of the driver considered per call
MaxStatusChanges == 1
\* largest in-range retry and wait budget tried in the full life cycle
MaxTried == 2

(***************************************************************************)
(* Python values                                                           *)
(***************************************************************************)
PyStr(s) == [type |-> "str", val |-> s]
PyInt(n) == [type |-> "int", val |-> n]
\* True: an int subclass whose type() is bool
PyTrue == [type |-> "bool", val |-> 1]

Ssid2 == "ab"
Ssid32 == "abcdefghijklmnopqrstuvwxyz012345"
Ssid33 == "abcdefghijklmnopqrstuvwxyz0123456"

SsidInputs == {PyStr(""), PyStr("a"), PyStr(Ssid2), PyStr(Ssid32), PyStr(Ssid33), PyInt(22)}
PasswordInputs == {PyStr(""), PyStr("secret"), PyInt(1234)}
CountInputs(ns) == {PyInt(n) : n \in ns} \cup {PyStr("5"), PyTrue}
\* values tried in the full life cycle
TriedCounts == (0..MaxTried) \cup {10}
\* every value around the accepted range
AllCounts == 0..10

(***************************************************************************)
(* The assertions of __init__ and of the setters                          *)
(***************************************************************************)
ssid_ok(v) == v.type = "str" /\ 2 <= Len(v.val) /\ Len(v.val) <= 32
password_ok(v) == v.type = "str"
attempts_ok_upto10(v) == v.type = "int" /\ 1 <= v.val /\ v.val <= 10
attempts_ok(v) == v.type = "int" /\ 1 <= v.val /\ v.val <= 9
wait_loops_ok(v) == v.type = "int" /\ 1 <= v.val /\ v.val <= 9

(***************************************************************************)
(* The driver: network.WLAN(network.STA_IF)                                *)
(***************************************************************************)
NoAddress == "0.0.0.0"
Addresses == {"10.0.0.5", "192.168.4.2"}
\* status codes the driver is seen to report: two named ones and an unnamed one
StatusCodes == {1, 3, 7}
\* messages of the OSError a rejected connect request carries
FaultMessages == {"network password", "Wifi Internal Error"}

\* time.sleep(n), as it shows in the trace
Sleep(n) == "sleep(" \o ToString(n) \o ")"

\* self._wlan.connect(ssid, password) raising OSError, as it shows in the trace
RejectedRequest == "connect() OSError"

\* self._wlan.active(b): powering down drops the link
wlan_active(w, b) ==
    IF b THEN [w EXCEPT !.active = TRUE]
    ELSE [w EXCEPT !.active = FALSE, !.connected = FALSE, !.addr = NoAddress]

\* self._wlan.disconnect()
wlan_disconnect(w) == [w EXCEPT !.connected = FALSE, !.addr = NoAddress]

(***************************************************************************)
(* status_message                                                          *)
(***************************************************************************)
RECURSIVE Join(_)
Join(cs) == IF cs = <<>> THEN "" ELSE Head(cs) \o Join(Tail(cs))

\* "STAT_" in s
HasStat(s) ==
    \E i \in 1..(Len(s) - 4) : SubSeq(s, i, i + 4) = <<"S", "T", "A", "T", "_">>

\* dir(network): the attribute names of the driver module, sorted, with their values
NetworkDir == <<
    [name |-> <<"S","T","A","T","_","C","O","N","N","E","C","T","I","N","G">>, value |-> 1],
    [name |-> <<"S","T","A","T","_","C","O","N","N","E","C","T","_","F","A","I","L">>, value |-> 4],
    [name |-> <<"S","T","A","T","_","G","O","T","_","I","P">>, value |-> 5],
    [name |-> <<"S","T","A","T","_","I","D","L","E">>, value |-> 0],
    [name |-> <<"S","T","A","T","_","N","O","_","A","P","_","F","O","U","N","D">>, value |-> 3],
    [name |-> <<"S","T","A","T","_","W","R","O","N","G","_","P","A","S","S","W","O","R","D">>, value |-> 2],
    [name |-> <<"S","T","A","_","I","F">>, value |-> 0],
    [name |-> <<"W","L","A","N">>, value |-> 0] >>

\* _stats = [s for s in dir(network) if "STAT_" in s]
Stats == SelectSeq(NetworkDir, LAMBDA e : HasStat(e.name))

\* the same with s[4:]
RECURSIVE StatsLookupFrom4(_, _, _)
StatsLookupFrom4(stats, status, default) ==
    IF stats = <<>> THEN default
    ELSE LET s == stats[Len(stats)]
         IN IF s.value = status
            THEN Join(SubSeq(s.name, 5, Len(s.name)))
            ELSE StatsLookupFrom4(SubSeq(stats, 1, Len(stats) - 1), status, default)

\* for s in _stats: _out[getattr(network, s)] = s[5:]   (a later name replaces an earlier one)
RECURSIVE StatsLookup(_, _, _)
StatsLookup(stats, status, default) ==
    IF stats = <<>> THEN default
    ELSE LET s == stats[Len(stats)]
         IN IF s.value = status
            THEN Join(SubSeq(s.name, 6, Len(s.name)))
            ELSE StatsLookup(SubSeq(stats, 1, Len(stats) - 1), status, default)

\* status_message over the table built with s[4:]
status_message_from4(status) ==
    StatsLookupFrom4(Stats, status, "ERROR " \o ToString(status) \o "?")

status_message(status) ==
    StatsLookup(Stats, status, "ERROR " \o ToString(status) \o "?")

(***************************************************************************)
(* Bookkeeping of a call                                                   *)
(***************************************************************************)
\* a call is made
Called(name, args) ==
    /\ op' = name
    /\ arg' = args
    /\ again' = (fresh /\ op = name /\ arg = args)
    /\ statChanges' = 0

\* a one-step call ends
Ended(how, calls) ==
    /\ ret' = how
    /\ trace' = calls
    /\ fresh' = TRUE

\* outside connect() its local variables do not exist
NoLocals == ai' = 1 /\ li' = 1 /\ output' = <<>>

(***************************************************************************)
(* __init__                                                                *)
(***************************************************************************)
\* __init__ without the final active(True)
ConstructLeftDown(ss, ps, as, ws) ==
    /\ pc = "new"
    /\ op = "none"
    /\ \E s \in ss, p \in ps, a \in as, w \in ws :
         /\ Called("__init__", <<s, p, a, w>>)
         /\ IF ssid_ok(s) /\ password_ok(p) /\ attempts_ok(a) /\ wait_loops_ok(w)
            THEN /\ wlan' = wlan_active(wlan, FALSE)
                 /\ ssid' = s.val
                 /\ password' = p.val
                 /\ attempts' = a.val
                 /\ wait_loops' = w.val
                 /\ pc' = "idle"
                 /\ Ended("returned", <<"active(False)">>)
            ELSE /\ UNCHANGED <<wlan, ssid, password, attempts, wait_loops, pc>>
                 /\ Ended("AssertionError", <<>>)
    /\ NoLocals

\* A failed construction leaves no manager and has touched nothing, so that
\* constructing again is the same as constructing first: it is tried once.
Construct(ss, ps, as, ws) ==
    /\ pc = "new"
    /\ op = "none"
    /\ \E s \in ss, p \in ps, a \in as, w \in ws :
         /\ Called("__init__", <<s, p, a, w>>)
         /\ IF ssid_ok(s) /\ password_ok(p) /\ attempts_ok(a) /\ wait_loops_ok(w)
            THEN /\ wlan' = wlan_active(wlan_active(wlan, FALSE), TRUE)
                 /\ ssid' = s.val
                 /\ password' = p.val
                 /\ attempts' = a.val
                 /\ wait_loops' = w.val
                 /\ pc' = "idle"
                 /\ Ended("returned", <<"active(False)", "active(True)">>)
            ELSE /\ UNCHANGED <<wlan, ssid, password, attempts, wait_loops, pc>>
                 /\ Ended("AssertionError", <<>>)
    /\ NoLocals

(***************************************************************************)
(* The property setters                                                    *)
(***************************************************************************)
SetSsid ==
    /\ pc = "idle"
    /\ \E v \in SsidInputs :
         /\ Called("ssid", <<v>>)
         /\ IF ssid_ok(v)
            THEN ssid' = v.val /\ Ended("returned", <<>>)
            ELSE ssid' = ssid /\ Ended("AssertionError", <<>>)
    /\ NoLocals
    /\ UNCHANGED <<pc, password, attempts, wait_loops, wlan>>

SetPassword ==
    /\ pc = "idle"
    /\ \E v \in PasswordInputs :
         /\ Called("password", <<v>>)
         /\ IF password_ok(v)
            THEN password' = v.val /\ Ended("returned", <<>>)
            ELSE password' = password /\ Ended("AssertionError", <<>>)
    /\ NoLocals
    /\ UNCHANGED <<pc, ssid, attempts, wait_loops, wlan>>

\* the attempts setter storing the value before it checks the range
SetAttemptsStoresFirst(ns) ==
    /\ pc = "idle"
    /\ \E v \in CountInputs(ns) :
         /\ Called("attempts", <<v>>)
         /\ IF attempts_ok(v)
            THEN attempts' = v.val /\ Ended("returned", <<>>)
            ELSE /\ attempts' = IF v.type = "int" THEN v.val ELSE attempts
                 /\ Ended("AssertionError", <<>>)
    /\ NoLocals
    /\ UNCHANGED <<pc, ssid, password, wait_loops, wlan>>

SetAttempts(ns) ==
    /\ pc = "idle"
    /\ \E v \in CountInputs(ns) :
         /\ Called("attempts", <<v>>)
         /\ IF attempts_ok(v)
            THEN attempts' = v.val /\ Ended("returned", <<>>)
            ELSE attempts' = attempts /\ Ended("AssertionError", <<>>)
    /\ NoLocals
    /\ UNCHANGED <<pc, ssid, password, wait_loops, wlan>>

SetWaitLoops(ns) ==
    /\ pc = "idle"
    /\ \E v \in CountInputs(ns) :
         /\ Called("wait_loops", <<v>>)
         /\ IF wait_loops_ok(v)
            THEN wait_loops' = v.val /\ Ended("returned", <<>>)
            ELSE wait_loops' = wait_loops /\ Ended("AssertionError", <<>>)
    /\ NoLocals
    /\ UNCHANGED <<pc, ssid, password, attempts, wlan>>

(***************************************************************************)
(* available_wlans                                                         *)
(***************************************************************************)
\* available_wlans without the "Reinstate state" part
AvailableWlansLeftUp ==
    /\ pc = "idle"
    /\ Called("available_wlans", <<>>)
    /\ IF ~wlan.active
       THEN /\ wlan' = wlan_active(wlan, TRUE)
            /\ Ended("returned", <<"active()", "active(True)", Sleep(1), "scan()">>)
       ELSE /\ wlan' = wlan
            /\ Ended("returned", <<"active()", "scan()">>)
    /\ NoLocals
    /\ UNCHANGED <<pc, ssid, password, attempts, wait_loops>>

AvailableWlans ==
    /\ pc = "idle"
    /\ Called("available_wlans", <<>>)
    /\ IF ~wlan.active
       THEN /\ wlan' = wlan_active(wlan_active(wlan, TRUE), FALSE)
            /\ Ended("returned", <<"active()", "active(True)", Sleep(1), "scan()", "active(False)">>)
       ELSE /\ wlan' = wlan
            /\ Ended("returned", <<"active()", "scan()">>)
    /\ NoLocals
    /\ UNCHANGED <<pc, ssid, password, attempts, wait_loops>>

(***************************************************************************)
(* disconnect                                                              *)
(***************************************************************************)
\* disconnect without the isconnected() test
DisconnectUnconditional ==
    /\ pc = "idle"
    /\ Called("disconnect", <<>>)
    /\ wlan' = wlan_active(wlan_disconnect(wlan), FALSE)
    /\ Ended("returned", <<"disconnect()", "active(False)">>)
    /\ NoLocals
    /\ UNCHANGED <<pc, ssid, password, attempts, wait_loops>>

\* disconnect without the active(False)
DisconnectKeepsPower ==
    /\ pc = "idle"
    /\ Called("disconnect", <<>>)
    /\ IF wlan.connected
       THEN /\ wlan' = wlan_disconnect(wlan)
            /\ Ended("returned", <<"isconnected()", "disconnect()">>)
       ELSE /\ wlan' = wlan
            /\ Ended("returned", <<"isconnected()">>)
    /\ NoLocals
    /\ UNCHANGED <<pc, ssid, password, attempts, wait_loops>>

Disconnect ==
    /\ pc = "idle"
    /\ Called("disconnect", <<>>)
    /\ IF wlan.connected
       THEN /\ wlan' = wlan_active(wlan_disconnect(wlan), FALSE)
            /\ Ended("returned", <<"isconnected()", "disconnect()", "active(False)">>)
       ELSE /\ wlan' = wlan
            /\ Ended("returned", <<"isconnected()">>)
    /\ NoLocals
    /\ UNCHANGED <<pc, ssid, password, attempts, wait_loops>>

(***************************************************************************)
(* connect                                                                 *)
(***************************************************************************)
ATTEMPT_SLEEP == 15
WAIT_SLEEP == 7

\* range(1, self._attempts + 1): counting up
AttemptRangeAscending(n) == [i \in 1..n |-> i]

\* range(self._attempts, -1, -1): one element too many
AttemptRangeThroughZero(n) == [i \in 1..(n + 1) |-> n + 1 - i]

\* range(self._attempts, 0, -1)
AttemptRange(n) == [i \in 1..n |-> n + 1 - i]

\* the tuple (self._wait_loops, 0, -1) the wait loop iterates over
WaitTuple(w) == <<w, 0, -1>>

\* connect() returns _output
Return ==
    /\ pc' = "idle"
    /\ ret' = "returned"
    /\ fresh' = TRUE
    /\ ai' = 1
    /\ li' = 1
    /\ statChanges' = 0

\* the head of the for loop over the attempts: next element or fall through
NextAttempt(i) ==
    /\ ai' = i
    /\ li' = 1
    /\ pc' = IF i <= Len(AttemptRange(attempts)) THEN "attempt" ELSE "failed"
    /\ UNCHANGED <<ret, fresh, statChanges>>

\* connect() waking the radio up before it looks at the link
ConnectCallWakesFirst ==
    /\ pc = "idle"
    /\ Called("connect", <<>>)
    /\ wlan' = wlan_active(wlan, TRUE)
    /\ IF wlan.connected
       THEN /\ output' = <<wlan.addr>>
            /\ trace' = <<"active(True)", Sleep(1), "isconnected()", "ifconfig()">>
            /\ Return
       ELSE /\ output' = <<>>
            /\ trace' = <<"active(True)", Sleep(1), "isconnected()">>
            /\ ret' = "running"
            /\ fresh' = FALSE
            /\ ai' = 1
            /\ li' = 1
            /\ pc' = IF 1 <= Len(AttemptRange(attempts)) THEN "attempt" ELSE "failed"
    /\ UNCHANGED config

\* connect() without its "Wake up" part
ConnectCallNoWake ==
    /\ pc = "idle"
    /\ Called("connect", <<>>)
    /\ wlan' = wlan
    /\ IF wlan.connected
       THEN /\ output' = <<wlan.addr>>
            /\ trace' = <<"isconnected()", "ifconfig()">>
            /\ Return
       ELSE /\ output' = <<>>
            /\ trace' = <<"isconnected()">>
            /\ ret' = "running"
            /\ fresh' = FALSE
            /\ ai' = 1
            /\ li' = 1
            /\ pc' = IF 1 <= Len(AttemptRange(attempts)) THEN "attempt" ELSE "failed"
    /\ UNCHANGED config

\* lines 154-163: the shortcut, or power up and settle
ConnectCall ==
    /\ pc = "idle"
    /\ Called("connect", <<>>)
    /\ IF wlan.connected
       THEN /\ output' = <<wlan.addr>>
            /\ trace' = <<"isconnected()", "ifconfig()">>
            /\ wlan' = wlan
            /\ Return
       ELSE /\ output' = <<>>
            /\ trace' = <<"isconnected()", "active(True)", Sleep(1)>>
            /\ wlan' = wlan_active(wlan, TRUE)
            /\ ret' = "running"
            /\ fresh' = FALSE
            /\ ai' = 1
            /\ li' = 1
            /\ pc' = IF 1 <= Len(AttemptRange(attempts)) THEN "attempt" ELSE "failed"
    /\ UNCHANGED config

\* the except clause without its return: the attempt goes on to the wait loop
ConnectAttemptGoesOn(faults) ==
    /\ pc = "attempt"
    /\ LET a == AttemptRange(attempts)[ai]
           entry == "WLAN " \o ToString(a)
       IN \E r \in {"ok"} \cup faults :
            /\ output' = IF r = "ok" THEN Append(output, entry)
                          ELSE output \o <<entry, r \o ". Probably wrong network password">>
            /\ trace' = trace \o <<IF r = "ok" THEN "connect()" ELSE RejectedRequest, Sleep(1)>>
            /\ pc' = "poll"
            /\ li' = 1
            /\ UNCHANGED <<ai, ret, fresh, statChanges>>
    /\ UNCHANGED <<config, wlan, op, arg, again>>

\* no except clause: the OSError leaves connect()
ConnectAttemptRaises(faults) ==
    /\ pc = "attempt"
    /\ LET a == AttemptRange(attempts)[ai]
           entry == "WLAN " \o ToString(a)
       IN \E r \in {"ok"} \cup faults :
            IF r = "ok"
            THEN /\ output' = Append(output, entry)
                 /\ trace' = trace \o <<"connect()", Sleep(1)>>
                 /\ pc' = "poll"
                 /\ li' = 1
                 /\ UNCHANGED <<ai, ret, fresh, statChanges>>
            ELSE /\ output' = <<>>
                 /\ trace' = trace \o <<RejectedRequest>>
                 /\ pc' = "idle"
                 /\ ret' = "OSError"
                 /\ fresh' = TRUE
                 /\ ai' = 1
                 /\ li' = 1
                 /\ statChanges' = 0
    /\ UNCHANGED <<config, wlan, op, arg, again>>

\* lines 166-175: the countdown entry and the connect request, which the driver may reject
ConnectAttempt(faults) ==
    /\ pc = "attempt"
    /\ LET a == AttemptRange(attempts)[ai]
           entry == "WLAN " \o ToString(a)
       IN \E r \in {"ok"} \cup faults :
            IF r = "ok"
            THEN /\ output' = Append(output, entry)
                 /\ trace' = trace \o <<"connect()", Sleep(1)>>
                 /\ pc' = "poll"
                 /\ li' = 1
                 /\ UNCHANGED <<ai, ret, fresh, statChanges>>
            ELSE /\ output' = output \o <<entry, r \o ". Probably wrong network password">>
                 /\ trace' = trace \o <<RejectedRequest>>
                 /\ Return
    /\ UNCHANGED <<config, wlan, op, arg, again>>

\* the wait loop looking at the link in its first iteration only
ConnectPollChecksFirstOnly ==
    /\ pc = "poll"
    /\ LET l == WaitTuple(wait_loops)[li]
       IN IF li = 1 /\ wlan.connected
          THEN /\ output' = Append(output, " " \o wlan.addr)
               /\ trace' = trace \o <<"isconnected()", "ifconfig()">>
               /\ Return
          ELSE /\ output' = IF l > 1 THEN Append(output, " Wait " \o ToString(l)) ELSE output
               /\ trace' = trace \o (IF li = 1 THEN <<"isconnected()">> ELSE <<>>)
                                 \o (IF l > 1 THEN <<Sleep(WAIT_SLEEP)>> ELSE <<>>)
               /\ li' = li + 1
               /\ pc' = IF li + 1 <= Len(WaitTuple(wait_loops)) THEN "poll" ELSE "status"
               /\ UNCHANGED <<ai, ret, fresh, statChanges>>
    /\ UNCHANGED <<config, wlan, op, arg, again>>

\* the wait loop without the return after the address is emitted
ConnectPollGoesOn ==
    /\ pc = "poll"
    /\ LET l == WaitTuple(wait_loops)[li]
       IN /\ output' = IF wlan.connected THEN Append(output, " " \o wlan.addr)
                        ELSE IF l > 1 THEN Append(output, " Wait " \o ToString(l)) ELSE output
          /\ trace' = trace \o (IF wlan.connected THEN <<"isconnected()", "ifconfig()">>
                                ELSE IF l > 1 THEN <<"isconnected()", Sleep(WAIT_SLEEP)>>
                                ELSE <<"isconnected()">>)
          /\ li' = li + 1
          /\ pc' = IF li + 1 <= Len(WaitTuple(wait_loops)) THEN "poll" ELSE "status"
          /\ UNCHANGED <<ai, ret, fresh, statChanges>>
    /\ UNCHANGED <<config, wlan, op, arg, again>>

\* lines 178-187: one iteration of the wait loop
ConnectPoll ==
    /\ pc = "poll"
    /\ LET l == WaitTuple(wait_loops)[li]
       IN IF wlan.connected
          THEN /\ output' = Append(output, " " \o wlan.addr)
               /\ trace' = trace \o <<"isconnected()", "ifconfig()">>
               /\ Return
          ELSE /\ output' = IF l > 1 THEN Append(output, " Wait " \o ToString(l)) ELSE output
               /\ trace' = trace \o (IF l > 1 THEN <<"isconnected()", Sleep(WAIT_SLEEP)>>
                                             ELSE <<"isconnected()">>)
               /\ li' = li + 1
               /\ pc' = IF li + 1 <= Len(WaitTuple(wait_loops)) THEN "poll" ELSE "status"
               /\ UNCHANGED <<ai, ret, fresh, statChanges>>
    /\ UNCHANGED <<config, wlan, op, arg, again>>

\* the attempt sleep growing with the attempts left
ConnectStatusSleepsLonger ==
    /\ pc = "status"
    /\ LET a == AttemptRange(attempts)[ai]
       IN /\ output' = Append(output, status_message(wlan.stat))
          /\ trace' = trace \o (IF a > 1 THEN <<"status()", Sleep(ATTEMPT_SLEEP * a)>>
                                        ELSE <<"status()">>)
          /\ NextAttempt(ai + 1)
    /\ UNCHANGED <<config, wlan, op, arg, again>>

\* the attempt sleep without its "if _a > 1"
ConnectStatusAlwaysSleeps ==
    /\ pc = "status"
    /\ output' = Append(output, status_message(wlan.stat))
    /\ trace' = trace \o <<"status()", Sleep(ATTEMPT_SLEEP)>>
    /\ NextAttempt(ai + 1)
    /\ UNCHANGED <<config, wlan, op, arg, again>>

\* lines 190-193: the attempt was unsuccessful
ConnectStatus ==
    /\ pc = "status"
    /\ LET a == AttemptRange(attempts)[ai]
       IN /\ output' = Append(output, status_message(wlan.stat))
          /\ trace' = trace \o (IF a > 1 THEN <<"status()", Sleep(ATTEMPT_SLEEP)>>
                                        ELSE <<"status()">>)
          /\ NextAttempt(ai + 1)
    /\ UNCHANGED <<config, wlan, op, arg, again>>

\* lines 196-197: every attempt was unsuccessful
ConnectFailed ==
    /\ pc = "failed"
    /\ output' = Append(output, "WLAN connection failed")
    /\ trace' = trace
    /\ Return
    /\ UNCHANGED <<config, wlan, op, arg, again>>

(***************************************************************************)
(* The driver moves on its own                                             *)
(***************************************************************************)
\* (what the driver did before the manager exists is in the initial states)
DriverMoved ==
    /\ pc # "new"
    /\ fresh' = FALSE
    /\ UNCHANGED <<pc, config, ai, li, output, op, arg, ret, trace, again>>

\* the station associates and is given an address
DriverLinkUp ==
    /\ wlan.active /\ ~wlan.connected
    /\ \E addr \in Addresses : wlan' = [wlan EXCEPT !.connected = TRUE, !.addr = addr]
    /\ DriverMoved
    /\ UNCHANGED statChanges

\* the station loses the link
DriverLinkDown ==
    /\ wlan.connected
    /\ wlan' = [wlan EXCEPT !.connected = FALSE, !.addr = NoAddress]
    /\ DriverMoved
    /\ UNCHANGED statChanges

\* the status code changes
DriverStatus ==
    /\ ret = "running" => statChanges < MaxStatusChanges
    /\ \E code \in StatusCodes \ {wlan.stat} : wlan' = [wlan EXCEPT !.stat = code]
    /\ statChanges' = IF ret = "running" THEN statChanges + 1 ELSE 0
    /\ DriverMoved

(***************************************************************************)
(* Specifications                                                          *)
(***************************************************************************)
DriverStates ==
    {w \in [active : BOOLEAN, connected : BOOLEAN,
            addr : Addresses \cup {NoAddress}, stat : StatusCodes] :
        /\ w.connected => w.active
        /\ w.connected <=> w.addr # NoAddress}

\* before the manager is constructed
InitWith(drivers) ==
    /\ pc = "new"
    /\ ssid = ""
    /\ password = ""
    /\ attempts = 0
    /\ wait_loops = 0
    /\ wlan \in drivers
    /\ ai = 1
    /\ li = 1
    /\ output = <<>>
    /\ op = "none"
    /\ arg = <<>>
    /\ ret = "none"
    /\ trace = <<>>
    /\ again = FALSE
    /\ fresh = TRUE
    /\ statChanges = 0

Init == InitWith(DriverStates)

New == Construct(SsidInputs, PasswordInputs, CountInputs(TriedCounts), CountInputs(TriedCounts))
SetAttemptsTried == SetAttempts(TriedCounts)
SetWaitLoopsTried == SetWaitLoops(TriedCounts)
ConnectAttemptAny == ConnectAttempt(FaultMessages)

\* the whole life cycle over a driver that is free to move
Next ==
    \/ New
    \/ SetSsid
    \/ SetPassword
    \/ SetAttemptsTried
    \/ SetWaitLoopsTried
    \/ AvailableWlans
    \/ Disconnect
    \/ ConnectCall
    \/ ConnectAttemptAny
    \/ ConnectPoll
    \/ ConnectStatus
    \/ ConnectFailed
    \/ DriverLinkUp
    \/ DriverLinkDown
    \/ DriverStatus

Spec == Init /\ [][Next]_vars

\* connect() is straight-line code between finite sleeps: once called, its
\* next step is taken
ConnectStep ==
    \/ ConnectAttemptAny
    \/ ConnectPoll
    \/ ConnectStatus
    \/ ConnectFailed

SpecFair == Init /\ [][Next]_vars /\ WF_vars(ConnectStep)

\* a driver stub that never reports a link and never rejects a request,
\* under every retry and wait budget around the accepted range
StubDrivers == {w \in DriverStates : ~w.connected}
InitStub == InitWith(StubDrivers)

NewAny == Construct(SsidInputs, PasswordInputs, CountInputs(AllCounts), CountInputs(AllCounts))
SetAttemptsAny == SetAttempts(AllCounts)
SetWaitLoopsAny == SetWaitLoops(AllCounts)
ConnectAttemptOk == ConnectAttempt({})

NextStub ==
    \/ NewAny
    \/ SetSsid
    \/ SetPassword
    \/ SetAttemptsAny
    \/ SetWaitLoopsAny
    \/ AvailableWlans
    \/ Disconnect
    \/ ConnectCall
    \/ ConnectAttemptOk
    \/ ConnectPoll
    \/ ConnectStatus
    \/ ConnectFailed

SpecStub == InitStub /\ [][NextStub]_vars

(***************************************************************************)
(* __repr__ and the read-only properties, of a manager                     *)
(* self = [ssid, password, attempts, wait_loops, wlan]                     *)
(***************************************************************************)
Self == [ssid |-> ssid, password |-> password, attempts |-> attempts,
         wait_loops |-> wait_loops, wlan |-> wlan]

PyNone == [type |-> "NoneType", val |-> 0]

repr(self) == "Wireless(ssid=" \o self.ssid \o ")"
get_isconnected(self) == self.wlan.connected
get_wlan(self) == self.wlan
get_status(self) == status_message(self.wlan.stat)
get_ssid(self) == PyStr(self.ssid)
\* the password getter handing out the stored value
get_password_stored(self) == PyStr(self.password)
get_password(self) == PyNone
get_attempts(self) == PyInt(self.attempts)
get_wait_loops(self) == PyInt(self.wait_loops)

(***************************************************************************)
(* Properties                                                              *)
(***************************************************************************)
Queries == {"isconnected()", "ifconfig()", "status()", "active()"}
IsSleep(c) == c \in {Sleep(1), Sleep(WAIT_SLEEP), Sleep(ATTEMPT_SLEEP)}
\* the state-changing driver calls of a trace
Commands(t) == SelectSeq(t, LAMBDA c : c \notin Queries /\ ~IsSleep(c))
Pauses(t) == SelectSeq(t, IsSleep)
Last(q) == q[Len(q)]

Countdown(n) == "WLAN " \o ToString(n)
CountdownEntries == {Countdown(n) : n \in 1..9}
FaultEntries == {m \o ". Probably wrong network password" : m \in FaultMessages}
FailedEntry == "WLAN connection failed"
IsCountdown(e) == e \in CountdownEntries
Rejected == \E i \in 1..Len(trace) : trace[i] = RejectedRequest
ConnectReturned == op = "connect" /\ pc = "idle"

\* this step is the call of the named method (the driver moving on its own
\* clears fresh and starts nothing)
CallStep(name) == pc = "idle" /\ op' = name /\ (fresh' \/ ret' = "running")

\* C1: over a driver that never reports a link and never rejects a request,
\* for every attempts and wait_loops in 1..9, the log connect() returns holds
\* exactly the countdown entries attempts, attempts-1, ..., 1 in that order,
\* ends with "WLAN connection failed", and the radio is not connected.
ExhaustionLog ==
    ConnectReturned =>
        /\ SelectSeq(output, IsCountdown) = [i \in 1..attempts |-> Countdown(attempts + 1 - i)]
        /\ Last(output) = FailedEntry
        /\ ~wlan.connected

ExhaustionOfNine ==
    /\ ConnectReturned
    /\ attempts = 9
    /\ wait_loops = 9
    /\ Last(output) = FailedEntry
    /\ Len(SelectSeq(output, IsCountdown)) = 9

\* C2: called while the driver reports connected, connect() returns a log
\* of one entry, the assigned address, makes no state-changing driver call
\* and no pause, and leaves the driver's state as it was.
ShortcutOnly ==
    [][(CallStep("connect") /\ wlan.connected) =>
           /\ output' = <<wlan.addr>>
           /\ ret' = "returned"
           /\ pc' = "idle"
           /\ Commands(trace') = <<>>
           /\ Pauses(trace') = <<>>
           /\ wlan' = wlan]_vars

ShortcutTaken ==
    /\ ConnectReturned
    /\ fresh
    /\ wlan.connected
    /\ output = <<wlan.addr>>
    /\ trace = <<"isconnected()", "ifconfig()">>

\* C3: once the driver has rejected a connect request, that request is the
\* last thing connect() did (no further request, status query or pause),
\* connect() has returned, and the log ends with the countdown entry of that
\* attempt followed by the one entry describing the fault; the log has no
\* "WLAN connection failed" entry and one countdown entry per request made.
FaultAborts ==
    \A i \in 1..Len(trace) :
        trace[i] = RejectedRequest =>
            /\ i = Len(trace)
            /\ ConnectReturned
            /\ ret = "returned"
            /\ Len(output) >= 2
            /\ Last(output) \in FaultEntries
            /\ output[Len(output) - 1] \in CountdownEntries
            /\ Cardinality({j \in 1..Len(output) : output[j] \in FaultEntries}) = 1
            /\ \A j \in 1..Len(output) : output[j] # FailedEntry
            /\ Len(SelectSeq(output, IsCountdown))
                 = Len(SelectSeq(trace, LAMBDA c : c \in {"connect()", RejectedRequest}))

FaultOnFirstOfTwo ==
    /\ Rejected
    /\ attempts = 2
    /\ output = <<Countdown(2), "network password. Probably wrong network password">>

\* C4 as stated: connect() ends with an error raised to its caller exactly
\* when the driver rejected a connect request.
RejectionRaises ==
    ConnectReturned => (ret # "returned" <=> Rejected)

\* C4 as amended: connect() always returns its log, also when the driver
\* rejected a connect request; the log ends with the entry describing the
\* fault exactly in that case.
RejectionReturnsLog ==
    ConnectReturned =>
        /\ ret = "returned"
        /\ Len(output) >= 1
        /\ Last(output) \in FaultEntries <=> Rejected

RejectionReturned ==
    /\ ConnectReturned
    /\ Rejected
    /\ ret = "returned"
    /\ Last(output) = "Wifi Internal Error. Probably wrong network password"

\* C5: available_wlans() leaves the radio's power state as it found it: a
\* powered-down radio sees power-up, scan, power-down in that order, a
\* powered-up radio sees the scan and no power call.
ScanRestoresPower ==
    [][CallStep("available_wlans") =>
           /\ ret' = "returned"
           /\ wlan'.active = wlan.active
           /\ Commands(trace') = IF wlan.active THEN <<"scan()">>
                                 ELSE <<"active(True)", "scan()", "active(False)">>]_vars

ScanFromPoweredDown ==
    /\ op = "available_wlans"
    /\ fresh
    /\ ~wlan.active
    /\ Commands(trace) = <<"active(True)", "scan()", "active(False)">>

\* C6: a disconnect() that immediately follows a disconnect() returns
\* without error, makes no state-changing driver call and leaves the
\* driver's state and the configuration as the first call left them.
DisconnectTwice ==
    [][(CallStep("disconnect") /\ op = "disconnect" /\ ret = "returned" /\ fresh) =>
           /\ ret' = "returned"
           /\ Commands(trace') = <<>>
           /\ wlan' = wlan
           /\ config' = config]_vars

DisconnectedTwice ==
    /\ op = "disconnect"
    /\ again
    /\ fresh
    /\ ~wlan.active
    /\ trace = <<"isconnected()">>

\* C7: disconnect() on a connected radio issues disconnect and then powers
\* the radio down; on a radio that is not connected it issues no
\* state-changing call and leaves the driver, powered up or not, as it was.
DisconnectEffect ==
    [][CallStep("disconnect") =>
           IF wlan.connected
           THEN /\ Commands(trace') = <<"disconnect()", "active(False)">>
                /\ ~wlan'.connected
                /\ ~wlan'.active
           ELSE /\ Commands(trace') = <<>>
                /\ wlan' = wlan]_vars

DisconnectNoOpPoweredUp ==
    /\ op = "disconnect"
    /\ ~again
    /\ fresh
    /\ wlan.active
    /\ ~wlan.connected
    /\ trace = <<"isconnected()">>

\* C8: a setter given an out-of-bound value (ssid of length 0, 1 or 33,
\* attempts 0 or 10, wait_loops 0 or 10) fails with the assertion error
\* and all four configuration fields keep their values.
OutOfBound(name, v) ==
    \/ name = "ssid" /\ v.type = "str" /\ Len(v.val) \in {0, 1, 33}
    \/ name \in {"attempts", "wait_loops"} /\ v.type = "int" /\ v.val \in {0, 10}

FailingSetterChangesNothing ==
    [][\A name \in {"ssid", "attempts", "wait_loops"} :
           (CallStep(name) /\ OutOfBound(name, arg'[1])) =>
               /\ ret' = "AssertionError"
               /\ config' = config]_vars

SetterRejected ==
    /\ pc = "idle"
    /\ op = "attempts"
    /\ arg = <<PyInt(10)>>
    /\ ret = "AssertionError"
    /\ attempts = 2

\* C9: once the manager is constructed, whatever setters, connect, scan
\* and disconnect calls follow, the stored ssid has length 2..32 and the
\* stored attempts and wait_loops are in 1..9.
ConfigInBounds ==
    pc # "new" =>
        /\ 2 <= Len(ssid) /\ Len(ssid) <= 32
        /\ attempts \in 1..9
        /\ wait_loops \in 1..9

ConfigAfterRejectedSetterAndConnect ==
    /\ ConnectReturned
    /\ Last(output) = FailedEntry
    /\ ssid = Ssid32
    /\ attempts = 1
    /\ wait_loops = 2

\* C10: construction with an ssid of length 2..32, a string password and
\* attempts, wait_loops in 1..9 succeeds, powers the radio down and then up,
\* ends with the radio powered up and the arguments stored, and a radio that
\* was not connected is not connected afterwards.
ValidArgs(args) ==
    /\ args[1].type = "str" /\ Len(args[1].val) \in 2..32
    /\ args[2].type = "str"
    /\ args[3].type = "int" /\ args[3].val \in 1..9
    /\ args[4].type = "int" /\ args[4].val \in 1..9

ConstructionPowersUp ==
    [][(pc = "new" /\ op' = "__init__" /\ ValidArgs(arg')) =>
           /\ ret' = "returned"
           /\ pc' = "idle"
           /\ trace' = <<"active(False)", "active(True)">>
           /\ wlan'.active
           /\ config' = <<arg'[1].val, arg'[2].val, arg'[3].val, arg'[4].val>>
           /\ ~wlan.connected => ~wlan'.connected]_vars

ConstructedWithNines ==
    /\ op = "__init__"
    /\ ret = "returned"
    /\ fresh
    /\ wlan.active
    /\ ssid = Ssid32
    /\ attempts = 9
    /\ wait_loops = 9

\* C11: the password getter returns None whatever secret was stored by the
\* constructor or the setter, and a manager that differs only in the stored
\* secret gives the same __repr__ and the same value of every property.
Secrets == {"", "secret", "another secret"}
View(self) ==
    <<repr(self), get_isconnected(self), get_wlan(self), get_status(self),
      get_ssid(self), get_password(self), get_attempts(self), get_wait_loops(self)>>

SecretNotReadable ==
    pc # "new" =>
        /\ get_password(Self) = PyNone
        /\ \A p \in Secrets : View([Self EXCEPT !.password = p]) = View(Self)

SecretWasSet ==
    /\ pc = "idle"
    /\ op = "password"
    /\ arg = <<PyStr("secret")>>
    /\ ret = "returned"
    /\ password = "secret"
    /\ get_password(Self) = PyNone

\* C12: status_message gives, for the value of every STAT_ constant of the
\* driver module, that constant's name (as the table holds it, without the
\* STAT_ prefix), and for every other code "ERROR <code>?"; the status
\* property is status_message of the driver's current status code.
StatNames ==
    {<<0, "IDLE">>, <<1, "CONNECTING">>, <<2, "WRONG_PASSWORD">>,
     <<3, "NO_AP_FOUND">>, <<4, "CONNECT_FAIL">>, <<5, "GOT_IP">>}
CodesLookedUp == (-3)..12
LabelOf(code) ==
    IF \E e \in StatNames : e[1] = code
    THEN (CHOOSE e \in StatNames : e[1] = code)[2]
    ELSE "ERROR " \o ToString(code) \o "?"

StatusLookupTotal ==
    /\ \A code \in CodesLookedUp : status_message(code) = LabelOf(code)
    /\ pc # "new" => get_status(Self) = LabelOf(wlan.stat)

UnknownStatusLogged ==
    /\ ConnectReturned
    /\ wlan.stat = 7
    /\ get_status(Self) = "ERROR 7?"
    /\ \E i \in 1..Len(output) : output[i] = "ERROR 7?"
    /\ \E i \in 1..Len(output) : output[i] = "CONNECTING"

Count(t, c) == Len(SelectSeq(t, LAMBDA x : x = c))
Requests == {"connect()", RejectedRequest}
\* where in the trace the last connect request is (0: none yet)
LastRequest ==
    LET at == {i \in 1..Len(trace) : trace[i] \in Requests}
    IN IF at = {} THEN 0 ELSE CHOOSE i \in at : \A j \in at : j <= i
\* the connectivity checks made since that request
PollsOfAttempt == Count(SubSeq(trace, LastRequest + 1, Len(trace)), "isconnected()")

\* C13: within an attempt connect() checks the link at most wait_loops
\* times, and exactly wait_loops times when the wait loop ends without a
\* check that saw the link.
PollsAsConfigured ==
    (op = "connect" /\ LastRequest > 0) =>
        /\ PollsOfAttempt <= wait_loops
        /\ pc = "status" => PollsOfAttempt = wait_loops

\* C14: a check that is followed by another check in the same attempt is
\* followed at once by a 7-unit pause, with one " Wait" entry in the log per
\* such pause, and every 7-unit pause comes right after a check.
WaitEntries == {" Wait " \o ToString(n) : n \in 0..10}
NextPollInAttempt(i) ==
    \E j \in (i + 1)..Len(trace) :
        /\ trace[j] = "isconnected()"
        /\ \A k \in (i + 1)..(j - 1) : trace[k] \notin Requests

PollsSpaced ==
    op = "connect" =>
        /\ \A i \in 1..Len(trace) :
              (trace[i] = "isconnected()" /\ NextPollInAttempt(i))
                  => trace[i + 1] = Sleep(WAIT_SLEEP)
        /\ \A i \in 1..Len(trace) :
              trace[i] = Sleep(WAIT_SLEEP) => (i > 1 /\ trace[i - 1] = "isconnected()")
        /\ Len(SelectSeq(output, LAMBDA e : e \in WaitEntries)) = Count(trace, Sleep(WAIT_SLEEP))

\* C15: in a log connect() returns other than by the shortcut, every
\* countdown entry is followed, before the next countdown entry or the end
\* of the log, by exactly one outcome entry: the address (then the last
\* entry, after a check that saw the link), the fault message (then the last
\* entry, after a rejected request), or the status message, which is the
\* label of the driver's status code at that moment, after a wait loop in
\* which no check saw the link.
AddressEntries == {" " \o a : a \in Addresses}
StatusEntries == {LabelOf(c) : c \in StatusCodes}
OutcomeEntries == AddressEntries \cup FaultEntries \cup StatusEntries
CountdownAt == {i \in 1..Len(output) : output[i] \in CountdownEntries}
SegmentEnd(i) ==
    LET later == {j \in CountdownAt : j > i}
    IN IF later = {} THEN Len(output)
       ELSE (CHOOSE j \in later : \A k \in later : j <= k) - 1
OutcomesOf(i) == {j \in (i + 1)..SegmentEnd(i) : output[j] \in OutcomeEntries}

LogStructured ==
    (ConnectReturned /\ trace # <<"isconnected()", "ifconfig()">>) =>
        /\ CountdownAt # {}
        /\ \A i \in CountdownAt : Cardinality(OutcomesOf(i)) = 1
        /\ \A j \in 1..Len(output) :
              /\ output[j] \in AddressEntries =>
                    (j = Len(output) /\ Last(trace) = "ifconfig()")
              /\ output[j] \in FaultEntries =>
                    (j = Len(output) /\ Last(trace) = RejectedRequest)
        /\ \A i \in 1..Len(trace) : trace[i] = "ifconfig()" => i = Len(trace)
        /\ Len(SelectSeq(output, LAMBDA e : e \in StatusEntries)) = Count(trace, "status()")

LogStructure ==
    /\ []LogStructured
    /\ [][(pc = "status" /\ pc' # "status") => Last(output') = LabelOf(wlan.stat)]_vars

LogOfTwoAttempts ==
    /\ ConnectReturned
    /\ output = <<"WLAN 2", " Wait 2", "NO_AP_FOUND", "WLAN 1", " 10.0.0.5">>

\* C16: after the status query that ends an unsuccessful attempt connect()
\* pauses 15 units exactly when the countdown of that attempt is above 1;
\* there is no other 15-unit pause, and a run through all the attempts makes
\* attempts - 1 of them.
BackoffBetweenAttempts ==
    op = "connect" =>
        /\ \A i \in 1..Len(trace) :
              trace[i] = "status()" =>
                  LET k == Count(SubSeq(trace, 1, i), "status()")
                  IN (i < Len(trace) /\ trace[i + 1] = Sleep(ATTEMPT_SLEEP))
                         <=> (attempts + 1 - k > 1)
        /\ \A i \in 1..Len(trace) :
              trace[i] = Sleep(ATTEMPT_SLEEP) => (i > 1 /\ trace[i - 1] = "status()")
        /\ (pc = "idle" /\ Last(output) = FailedEntry)
              => Count(trace, Sleep(ATTEMPT_SLEEP)) = attempts - 1

BackoffOfFive ==
    /\ ConnectReturned
    /\ attempts = 5
    /\ Last(output) = FailedEntry
    /\ Count(trace, Sleep(ATTEMPT_SLEEP)) = 4
    /\ Last(trace) = "status()"

\* C17 as stated: when connect() returns a log that ends with "WLAN
\* connection failed", the radio is not connected at that moment.
FailureMeansNotConnected ==
    (ConnectReturned /\ fresh /\ Last(output) = FailedEntry) => ~wlan.connected

\* C17 as amended: a log that ends with "WLAN connection failed" is returned
\* only after every attempt ended with its status query and no check saw the
\* link; a check that sees the link ends connect() with the address.  (The
\* link may come up after the last check.)
PollStep == pc = "poll" /\ (pc' # pc \/ li' # li)

FailureAfterUnconnectedChecks ==
    /\ []((ConnectReturned /\ Last(output) = FailedEntry) =>
             /\ Count(trace, "ifconfig()") = 0
             /\ Count(trace, "status()") = attempts
             /\ Last(trace) = "status()")
    /\ [][(PollStep /\ wlan.connected) =>
             (pc' = "idle" /\ Last(output') = " " \o wlan.addr)]_vars
    /\ [][(PollStep /\ pc' = "status") => ~wlan.connected]_vars

FailureReportedWhileConnected ==
    /\ ConnectReturned
    /\ fresh
    /\ Last(output) = FailedEntry
    /\ wlan.connected

\* C18: connect(), once called, returns, whatever the driver does, and at
\* no time has it issued more than attempts connect requests.
RequestsMade == Len(SelectSeq(trace, LAMBDA c : c \in Requests))

ConnectTerminates ==
    /\ [](op = "connect" => RequestsMade <= attempts)
    /\ (ret = "running") ~> (ret = "returned")

ConnectedOnLastAttempt ==
    /\ ConnectReturned
    /\ attempts = 2
    /\ RequestsMade = 2
    /\ Last(output) \in AddressEntries

\* C19: the pauses of one connect() call never add up to more than
\* attempts * (1 + wait_loops * 7 + 15).
PauseLengths == {1, WAIT_SLEEP} \cup {ATTEMPT_SLEEP * a : a \in AllCounts \ {0}}

Duration(c) ==
    IF c \in Queries \/ c \in Requests THEN 0
    ELSE IF \E n \in PauseLengths : c = Sleep(n)
         THEN CHOOSE n \in PauseLengths : c = Sleep(n)
         ELSE 0
RECURSIVE SumPauses(_)
SumPauses(t) == IF t = <<>> THEN 0 ELSE Duration(Head(t)) + SumPauses(Tail(t))

PauseBudget ==
    op = "connect" => SumPauses(trace) <= attempts * (1 + wait_loops * 7 + 15)

LongestConnect ==
    /\ ConnectReturned
    /\ attempts = 9
    /\ wait_loops = 9
    /\ SumPauses(trace) = 193

\* C20: connect() issues its connect requests to a powered-up radio: it is
\* powered up whenever a request is about to be made, and a connect() called
\* on a powered-down radio powers it up before anything else.
PoweredBeforeRequest ==
    /\ [](pc = "attempt" => wlan.active)
    /\ [][(CallStep("connect") /\ ~wlan.active) =>
             (wlan'.active /\ Commands(trace') = <<"active(True)">>)]_vars

RequestAfterPowerUp ==
    /\ op = "connect"
    /\ pc = "poll"
    /\ wlan.active
    /\ Commands(trace) = <<"active(True)", "connect()">>

====
